---------------------------- MODULE Spec2Model ----------------------------
(***************************************************************************)
(* TranscriptionService (lib/transcription-service): a wrapper around the  *)
(* browser's SpeechRecognition engine that keeps a transcription session   *)
(* alive across engine terminations, with pause/resume/stop/abort.         *)
(*                                                                         *)
(* The service's fields are the state; the engine (an external capability) *)
(* and the JavaScript timer queue are the environment.  Every handler of   *)
(* the service runs to completion (single-threaded event loop), so each    *)
(* public method, engine event handler and timer callback is one action.   *)
(***************************************************************************)
EXTENDS Integers, Sequences, FiniteSets, TLC

\* ---------------------------------------------------------------- bounds
\* at most this many restart timers are pending at once in the model
MaxTimers == 2
\* at most this many finalized fragments are received between two start()s
MaxFinals == 2
\* at most this many results are carried by one recognition update
MaxResults == 2

\* at most this many startRecording() calls are made on one recorder hook
MaxStarts == 2
\* at most this many timeslice chunks are emitted by one recorder
MaxChunks == 1
\* at most this many intervals of one kind are armed at once
MaxIntervals == 2
\* the duration counter is followed up to this value
MaxDuration == 1

\* ------------------------------------------------------ program constants
maxRestartAttempts == 3

\* fragments the engine finalizes (sequences of characters); one ends with a
\* space, as the engine's fragments may
Frags == { <<"h">>, <<"w", " ">> }

\* fragments the engine reports as not yet final
InterimFrags == { <<"h">> }

\* one entry of event.results
Results == [transcript : Frags, isFinal : {TRUE}]
             \cup [transcript : InterimFrags, isFinal : {FALSE}]

\* a recognition update: event.results[event.resultIndex ..]
Updates == UNION { [1..n -> Results] : n \in 1..MaxResults }

\* mutant of FatalErrors: 'network' is reported to the caller as well
FatalErrorsWithNetwork == {"audio-capture", "not-allowed", "network"}

\* event.error values the onerror handler distinguishes
FatalErrors == {"audio-capture", "not-allowed"}
TransientErrors == {"no-speech", "network"}

\* the engine session: idle, start() accepted but not yet reported, running,
\* stop() requested, abort() requested, error reported (end event due)
EngineStates == {"idle", "starting", "running", "stopping", "aborting", "ending"}

\* the three setTimeout callbacks: 100 ms after onend, 500 ms after a failed
\* start, 2000 ms after the attempt ceiling
TimerKinds == {"auto", "retry", "cooldown"}

VARIABLES
  \* fields of TranscriptionService
  supported,          \* this.recognition is not null
  isListening,
  isAborting,
  shouldBeListening,
  isPausedState,
  transcript,
  interimTranscript,
  restartTimer,       \* the pending timer this.restartTimer is the handle of,
                      \* by kind; "null" when null or the handle of a fired timer
  restartAttempts,
  onResultCallback,   \* TRUE when a result callback is registered
  onErrorCallback,    \* TRUE when an error callback is registered
  \* environment
  engine,             \* state of the SpeechRecognition session
  timers,             \* pending setTimeout callbacks: how many of each kind
  \* observations of the last step and of the session's history
  callStart,          \* the last step called recognition.start()
  errCalls,           \* error callback invocations made by the last step
  cbCur,              \* final text of the last result callback since start()
  finals,             \* fragments received as final since start()
  stopResult,         \* value returned by stop() in the last step (else empty)
  fatalLatch,         \* a fatal error was reported and start() not called since
  haltLatch,          \* pause/stop/abort was called, no resume/start since
  justPaused,         \* the last step was pause() and it stopped the engine
  roundTrip,          \* the last two steps were such a pause() and resume()
  resCalls,           \* result callback invocations made by the last step
  lastOutcome,        \* "returned" after a step that was stop() returning normally,
                      \* "ignored" after a start() that found a session active
  staleSession        \* start() began a session while the engine session begun
                      \* before it had not ended, and it has not ended since

svcVars == <<supported, isListening, isAborting, shouldBeListening, isPausedState,
             transcript, interimTranscript, restartTimer, restartAttempts,
             onResultCallback, onErrorCallback>>
envVars == <<engine, timers>>
obsVars == <<callStart, errCalls, cbCur, finals, stopResult,
             fatalLatch, haltLatch, justPaused, roundTrip,
             resCalls, lastOutcome, staleSession>>

\* LiveTranscription (components/live-transcription): the component that
\* drives the service from its props
VARIABLES
  mounted,            \* the component is mounted
  isActive,           \* prop
  isPaused,           \* prop
  showStartButton,    \* prop
  isTranscribing,     \* state
  finalTranscript,    \* state: the final text of the last result callback
  autoTimer,          \* the 100 ms timer of the auto start/stop effect:
                      \* "start", "stop" or "none"
  pauseEffectDue,     \* the pause/resume effect is scheduled to run
  fatalReported       \* the error callback fired for a fatal engine error and
                      \* the caller has changed no prop and clicked nothing since

compVars == <<mounted, isActive, isPaused, showStartButton, isTranscribing,
              finalTranscript, autoTimer, pauseEffectDue, fatalReported>>

\* useMediaRecorder (hooks/use-media-recorder): the audio capture hook
VARIABLES
  recIsRecording,     \* state isRecording
  recIsPaused,        \* state isPaused
  duration,           \* state duration
  seenRecording,      \* isRecording as closed over by the callbacks the caller holds
  seenPaused,         \* isPaused as closed over by the callbacks the caller holds
  mediaRecorderRef,   \* index of the MediaRecorder referenced, 0 for null
  streamRef,          \* index of the stream referenced, 0 for null
  processorRef,       \* index of the AudioProcessor referenced, 0 for null
  startPhase,         \* per startRecording() call: where its async body stands
  recorders,          \* per call: the MediaRecorder it created
  tracksLive,         \* per call: the tracks of its stream are live
  processors,         \* per call: the AudioProcessor it constructs
  durationTimers,     \* armed 1000 ms intervals
  levelTimers,        \* armed 100 ms intervals
  timerHeld,          \* timerRef.current is the id of an armed interval
  levelHeld,          \* levelMonitorRef.current is the id of an armed interval
  \* observations of the last step and of the history
  recErrCalls,        \* options.onError invocations made by the last step
  recThrew,           \* the call made in the last step threw to its caller
  stopPromise,        \* the promise of a stopRecording() made in the last
                      \* step: "pending" or "rejected", else "none"
  cleanupRan,         \* the last step ran the release block of stopRecording
  resolved,           \* the last step resolved a stopRecording() promise
  resolvedBlob,       \* the chunks of the blob it resolved with
  stoppedOnce,        \* stopRecording() has released the recording and no
                      \* startRecording() has completed since
  recUnmounted        \* the hook's unmount cleanup has run

recVars == <<recIsRecording, recIsPaused, duration, seenRecording, seenPaused,
             mediaRecorderRef, streamRef, processorRef, startPhase, recorders,
             tracksLive, processors, durationTimers, levelTimers, timerHeld,
             levelHeld, recErrCalls, recThrew, stopPromise, cleanupRan,
             resolved, resolvedBlob, stoppedOnce, recUnmounted>>

\* gemini-service (lib/gemini-service): the calls to the generative API and
\* the parsing of its answers
VARIABLES
  geminiKey,          \* GEMINI_API_KEY is set
  geminiCalls,        \* per caller: its callGeminiAPI(prompt) invocation
  response,           \* the text generateFlashcards got from callGeminiAPI
  flashcards,         \* the cards generateFlashcards returned for it
  parseThrew          \* generateFlashcards threw instead

libVars == <<geminiKey, geminiCalls, response, flashcards, parseThrew>>

vars == <<svcVars, envVars, obsVars, compVars, recVars, libVars>>

\* ------------------------------------------------------------- text helpers
RECURSIVE FinalPart(_)
\* what the onresult loop appends to this.transcript for an update
FinalPart(u) ==
  IF u = <<>> THEN <<>>
  ELSE (IF Head(u).isFinal THEN Head(u).transcript \o <<" ">> ELSE <<>>)
       \o FinalPart(Tail(u))

RECURSIVE InterimPartLast(_)
\* mutant of InterimPart: each non-final fragment replaces the pending text
InterimPartLast(u) ==
  IF u = <<>> THEN <<>>
  ELSE IF InterimPartLast(Tail(u)) # <<>> \/ Head(u).isFinal
       THEN InterimPartLast(Tail(u))
       ELSE Head(u).transcript

RECURSIVE InterimPart(_)
\* what the onresult loop leaves in this.interimTranscript for an update
\* (the field is emptied before the loop)
InterimPart(u) ==
  IF u = <<>> THEN <<>>
  ELSE (IF Head(u).isFinal THEN <<>> ELSE Head(u).transcript)
       \o InterimPart(Tail(u))

RECURSIVE FinalFrags(_)
\* the finalized fragments of an update, in order
FinalFrags(u) ==
  IF u = <<>> THEN <<>>
  ELSE (IF Head(u).isFinal THEN <<Head(u).transcript>> ELSE <<>>)
       \o FinalFrags(Tail(u))

RECURSIVE Join(_)
\* plain in-order concatenation of fragments
Join(fs) == IF fs = <<>> THEN <<>> ELSE Head(fs) \o Join(Tail(fs))

RECURSIVE JoinSp(_)
\* in-order concatenation of fragments, each followed by one space
JoinSp(fs) == IF fs = <<>> THEN <<>> ELSE Head(fs) \o <<" ">> \o JoinSp(Tail(fs))

\* mutant of Appended: the update's final text replaces the transcript
AppendedOverwriting(t, u) == FinalPart(u)

\* this.transcript after the onresult loop has run over update u
Appended(t, u) == t \o FinalPart(u)

IsPrefix(s, t) == Len(s) <= Len(t) /\ SubSeq(t, 1, Len(s)) = s

\* ------------------------------------------------------------ timer helpers
NoTimers == [k \in TimerKinds |-> 0]

Pending(tms) == tms["auto"] + tms["retry"] + tms["cooldown"]

\* the bound: the caller's start() and resume() are not explored with an
\* engine that accepts the start while MaxTimers timers are pending, so that
\* the engine never ends with no room for the timer onend sets
CanSchedule(tms) == Pending(tms) < MaxTimers

\* setTimeout(callback of kind k, delay)
SetTimeout(tms, k) == [tms EXCEPT ![k] = @ + 1]

\* one pending timer of kind k leaves the queue (it fired or was cleared)
Remove(tms, k) == [tms EXCEPT ![k] = @ - 1]

\* clearRestartTimer(): clears the timer this.restartTimer is the handle of
ClearRestartTimer(tms, rt) == IF rt = "null" THEN tms ELSE Remove(tms, rt)

\* -------------------------------------------------------- engine primitives
\* recognition.start(): accepted when the engine is idle; otherwise it throws
\* InvalidStateError, whose message names "already started" on some platforms
\* only.  On an idle engine it may also throw another error.
StartOutcomes == IF engine = "idle" THEN {"ok", "other"} ELSE {"already", "other"}

\* recognition.stop()
EngineStop(e) == IF e \in {"starting", "running"} THEN "stopping" ELSE e

\* recognition.abort()
EngineAbort(e) == IF e \in {"starting", "running", "stopping"} THEN "aborting" ELSE e

\* the service after construction
ServiceInit ==
  /\ supported \in BOOLEAN
  /\ isListening = FALSE
  /\ isAborting = FALSE
  /\ shouldBeListening = FALSE
  /\ isPausedState = FALSE
  /\ transcript = <<>>
  /\ interimTranscript = <<>>
  /\ restartTimer = "null"
  /\ restartAttempts = 0
  /\ onResultCallback = FALSE
  /\ onErrorCallback = FALSE
  /\ engine = "idle"
  /\ timers = NoTimers
  /\ callStart = FALSE
  /\ errCalls = 0
  /\ cbCur = <<>>
  /\ finals = <<>>
  /\ stopResult = <<>>
  /\ fatalLatch = FALSE
  /\ haltLatch = FALSE
  /\ justPaused = FALSE
  /\ roundTrip = FALSE
  /\ resCalls = 0
  /\ lastOutcome = "none"
  /\ staleSession = FALSE

\* no component is mounted: the service is driven by its caller directly
ComponentAbsent ==
  /\ mounted = FALSE
  /\ isActive = FALSE
  /\ isPaused = FALSE
  /\ showStartButton = FALSE
  /\ isTranscribing = FALSE
  /\ finalTranscript = <<>>
  /\ autoTimer = "none"
  /\ pauseEffectDue = FALSE
  /\ fatalReported = FALSE

\* ------------------------------------------------------------ AudioProcessor
\* analyser.frequencyBinCount, scaled down from fftSize / 2
BinCount == 2

\* the byte values a frequency bin takes: silence and one loud value, a
\* multiple of BinCount so that the average is a whole number
Levels == {0, BinCount}

\* what analyser.getByteFrequencyData can write
BinData == [1..BinCount -> Levels]

\* no reading taken yet
NoReading == -1

\* new AudioProcessor(): audioContext and analyser are null; closes counts
\* the close() calls on its context, bins is what its analyser would
\* report, reading and threw are what the last level reading gave
NewAudioProcessor ==
  [audioContext |-> "null", analyser |-> FALSE, closes |-> 0,
   bins |-> [b \in 1..BinCount |-> 0], reading |-> NoReading, threw |-> FALSE]

\* initialize(stream): a new context and its analyser
ProcessorInitialize(p) ==
  [p EXCEPT !.audioContext = "running", !.analyser = TRUE, !.closes = 0]

\* mutant of ProcessorStop: close() is called whether or not the
\* processor still holds a context
ProcessorStopUnguarded(p) ==
  [p EXCEPT !.audioContext = "null", !.closes = p.closes + 1]

\* stop(): closes the context it holds, if any, and drops it; the analyser
\* is kept
ProcessorStop(p) ==
  IF p.audioContext # "null"
  THEN [p EXCEPT !.audioContext = "null", !.closes = p.closes + 1]
  ELSE p

RECURSIVE SumBins(_)
SumBins(d) == IF Len(d) = 0 THEN 0 ELSE d[1] + SumBins(Tail(d))

\* getFrequencyData(): an empty array without analyser, else its data
GetFrequencyData(p) == IF ~p.analyser THEN <<>> ELSE p.bins

\* getAverageFrequency(): 0 without analyser, else the mean of the data;
\* reduce() without initial value throws on an empty array
GetAverageFrequency(p) ==
  IF ~p.analyser
  THEN [p EXCEPT !.reading = 0, !.threw = FALSE]
  ELSE LET dataArray == GetFrequencyData(p)
       IN  IF Len(dataArray) = 0
           THEN [p EXCEPT !.reading = NoReading, !.threw = TRUE]
           ELSE [p EXCEPT !.reading = SumBins(dataArray) \div Len(dataArray),
                          !.threw = FALSE]

\* a MediaRecorder not yet created
NoRecorder ==
  [st |-> "unborn", collecting |-> FALSE, waiting |-> FALSE, queue |-> 0,
   emitted |-> <<>>, chunks |-> <<>>]

\* the hook after its first render: nothing recorded, nothing referenced
RecorderInit ==
  /\ recIsRecording = FALSE
  /\ recIsPaused = FALSE
  /\ duration = 0
  /\ seenRecording = FALSE
  /\ seenPaused = FALSE
  /\ mediaRecorderRef = 0
  /\ streamRef = 0
  /\ processorRef = 0
  /\ startPhase = [i \in 1..MaxStarts |-> "notCalled"]
  /\ recorders = [i \in 1..MaxStarts |-> NoRecorder]
  /\ tracksLive = [i \in 1..MaxStarts |-> FALSE]
  /\ processors = [i \in 1..MaxStarts |-> NewAudioProcessor]
  /\ durationTimers = 0
  /\ levelTimers = 0
  /\ timerHeld = FALSE
  /\ levelHeld = FALSE
  /\ recErrCalls = 0
  /\ recThrew = FALSE
  /\ stopPromise = "none"
  /\ cleanupRan = FALSE
  /\ resolved = FALSE
  /\ resolvedBlob = <<>>
  /\ stoppedOnce = FALSE
  /\ recUnmounted = FALSE

\* at most this many callGeminiAPI invocations are in progress at once
MaxGeminiCalls == 2

Callers == 1..MaxGeminiCalls

\* an invocation not yet made
NoCall == [phase |-> "idle", retries |-> 0, requests |-> 0, waits |-> <<>>,
           error |-> "none"]

\* nothing of gemini-service is in use
LibraryIdle ==
  /\ geminiKey = TRUE
  /\ geminiCalls = [c \in Callers |-> NoCall]
  /\ response = <<>>
  /\ flashcards = <<>>
  /\ parseThrew = FALSE

Init == ServiceInit /\ ComponentAbsent /\ RecorderInit /\ LibraryIdle

\* -------------------------------------------------------------- attemptRestart
\* mutant of RestartRefused: the intent flag is not consulted
RestartRefusedIgnoringIntent == isAborting \/ isListening

\* the early return of attemptRestart()
RestartRefused == ~shouldBeListening \/ isAborting \/ isListening

\* private attemptRestart(), entered with restartAttempts = ra, the pending
\* timers tms and this.restartTimer = rt; outcome is what recognition.start()
\* does if it is reached
AttemptRestart(ra, tms, rt, outcome) ==
  IF RestartRefused
  THEN /\ restartAttempts' = ra
       /\ timers' = tms
       /\ restartTimer' = rt
       /\ callStart' = FALSE
       /\ UNCHANGED <<isListening, engine>>
  ELSE IF ra >= maxRestartAttempts
  THEN /\ CanSchedule(tms)
       /\ restartAttempts' = 0
       /\ timers' = SetTimeout(tms, "cooldown")
       /\ restartTimer' = "cooldown"
       /\ callStart' = FALSE
       /\ UNCHANGED <<isListening, engine>>
  ELSE /\ outcome \in StartOutcomes
       /\ callStart' = TRUE
       /\ CASE outcome = "ok" ->
                 /\ restartAttempts' = ra + 1
                 /\ engine' = "starting"
                 /\ timers' = tms
                 /\ restartTimer' = rt
                 /\ UNCHANGED isListening
            [] outcome = "already" ->
                 /\ isListening' = TRUE
                 /\ restartAttempts' = 0
                 /\ timers' = tms
                 /\ restartTimer' = rt
                 /\ UNCHANGED engine
            [] outcome = "other" ->
                 /\ CanSchedule(tms)
                 /\ restartAttempts' = ra + 1
                 /\ timers' = SetTimeout(tms, "retry")
                 /\ restartTimer' = "retry"
                 /\ UNCHANGED <<isListening, engine>>

\* a pending restart timer of kind k fires; held says whether it is the one
\* this.restartTimer is the handle of.  The 100 ms and 500 ms callbacks call
\* attemptRestart(); the 2000 ms callback first resets restartAttempts.
TimerFire(k, held, outcome) ==
  /\ timers[k] > 0
  /\ IF held THEN restartTimer = k
             ELSE timers[k] > (IF restartTimer = k THEN 1 ELSE 0)
  /\ LET tms == Remove(timers, k)
         rt  == IF held THEN "null" ELSE restartTimer
     IN  IF k = "cooldown"
         THEN IF shouldBeListening
              THEN AttemptRestart(0, tms, rt, outcome)
              ELSE /\ restartAttempts' = 0
                   /\ timers' = tms
                   /\ restartTimer' = rt
                   /\ callStart' = FALSE
                   /\ UNCHANGED <<isListening, engine>>
         ELSE AttemptRestart(restartAttempts, tms, rt, outcome)
  /\ stopResult' = <<>>
  /\ resCalls' = 0
  /\ lastOutcome' = "none"
  /\ errCalls' = 0
  /\ justPaused' = FALSE
  /\ roundTrip' = FALSE
  /\ UNCHANGED <<supported, isAborting, shouldBeListening, isPausedState, transcript,
                 interimTranscript, onResultCallback, onErrorCallback,
                 cbCur, finals, fatalLatch, haltLatch, staleSession>>

\* ------------------------------------------------------------ engine events
\* recognition.onstart
OnStart ==
  /\ engine = "starting"
  /\ engine' = "running"
  /\ isListening' = TRUE
  /\ isAborting' = FALSE
  /\ restartAttempts' = 0
  /\ timers' = ClearRestartTimer(timers, restartTimer)
  /\ restartTimer' = "null"
  /\ stopResult' = <<>>
  /\ resCalls' = 0
  /\ lastOutcome' = "none"
  /\ callStart' = FALSE
  /\ errCalls' = 0
  /\ justPaused' = FALSE
  /\ roundTrip' = FALSE
  /\ UNCHANGED <<supported, shouldBeListening, isPausedState, transcript,
                 interimTranscript, onResultCallback, onErrorCallback,
                 cbCur, finals, fatalLatch, haltLatch, staleSession>>

\* mutant of EndRestarts: the pause test is inverted
EndRestartsOnlyPaused == shouldBeListening /\ ~isAborting /\ isPausedState

\* the auto-restart condition of recognition.onend
EndRestarts == shouldBeListening /\ ~isAborting /\ ~isPausedState

\* recognition.onend
OnEnd ==
  /\ engine \in {"running", "stopping", "aborting", "ending"}
  /\ engine' = "idle"
  /\ isListening' = FALSE
  /\ IF EndRestarts
     THEN /\ timers' = SetTimeout(timers, "auto")
          /\ restartTimer' = "auto"
     ELSE UNCHANGED <<restartTimer, timers>>
  /\ stopResult' = <<>>
  /\ resCalls' = 0
  /\ lastOutcome' = "none"
  /\ callStart' = FALSE
  /\ errCalls' = 0
  /\ justPaused' = FALSE
  /\ roundTrip' = FALSE
  /\ UNCHANGED <<supported, isAborting, shouldBeListening, isPausedState, transcript,
                 interimTranscript, restartAttempts, onResultCallback, onErrorCallback,
                 cbCur, finals, fatalLatch, haltLatch>>
  /\ staleSession' = FALSE

\* recognition.onerror(event), event.error = e
OnError(e) ==
  /\ IF e = "aborted" THEN engine = "aborting"
                      ELSE engine \in {"starting", "running", "stopping"}
  /\ engine' = "ending"
  /\ IF e \in FatalErrors
     THEN /\ errCalls' = IF onErrorCallback THEN 1 ELSE 0
          /\ shouldBeListening' = FALSE
          /\ fatalLatch' = TRUE
     ELSE /\ errCalls' = 0
          /\ UNCHANGED <<shouldBeListening, fatalLatch>>
  /\ stopResult' = <<>>
  /\ resCalls' = 0
  /\ lastOutcome' = "none"
  /\ callStart' = FALSE
  /\ justPaused' = FALSE
  /\ roundTrip' = FALSE
  /\ UNCHANGED <<supported, isListening, isAborting, isPausedState, transcript,
                 interimTranscript, restartTimer, restartAttempts, onResultCallback,
                 onErrorCallback, timers, cbCur, finals,
                 haltLatch, staleSession>>

\* mutant of HasResultCallback: a listening engine's results are delivered
\* whether or not a callback is registered
HasResultCallbackOrListening == onResultCallback \/ isListening

\* this.onResultCallback?.(...) makes the call
HasResultCallback == onResultCallback

\* recognition.onresult(event), event.results[event.resultIndex ..] = u
OnResult(u) ==
  /\ engine \in {"running", "stopping"}
  /\ Len(finals) + Len(FinalFrags(u)) <= MaxFinals
  /\ transcript' = Appended(transcript, u)
  /\ interimTranscript' = InterimPart(u)
  /\ finals' = finals \o FinalFrags(u)
  /\ IF HasResultCallback
     THEN cbCur' = transcript' /\ resCalls' = 1
     ELSE resCalls' = 0 /\ UNCHANGED cbCur
  /\ stopResult' = <<>>
  /\ lastOutcome' = "none"
  /\ callStart' = FALSE
  /\ errCalls' = 0
  /\ justPaused' = FALSE
  /\ roundTrip' = FALSE
  /\ UNCHANGED <<supported, isListening, isAborting, shouldBeListening, isPausedState,
                 restartTimer, restartAttempts, onResultCallback, onErrorCallback,
                 engine, timers, fatalLatch, haltLatch, staleSession>>

\* ------------------------------------------------------------ public methods
\* mutant of AlreadyRunning: a session counts as active only while listening
AlreadyRunningAndListening == shouldBeListening /\ isListening

\* the second early return of start(): a session is already active
AlreadyRunning == shouldBeListening

\* start(onResult, onError): hasErr says whether onError was passed, outcome
\* is what recognition.start() does
Start(hasErr, outcome) ==
  /\ IF ~supported
     THEN /\ errCalls' = IF hasErr THEN 1 ELSE 0
          /\ callStart' = FALSE
          /\ lastOutcome' = "none"
          /\ UNCHANGED <<isAborting, shouldBeListening, transcript, interimTranscript,
                         restartAttempts, onResultCallback, onErrorCallback, engine,
                         cbCur, finals, fatalLatch, staleSession>>
     ELSE IF AlreadyRunning
     THEN /\ errCalls' = 0
          /\ callStart' = FALSE
          /\ lastOutcome' = "ignored"
          /\ UNCHANGED <<isAborting, shouldBeListening, transcript, interimTranscript,
                         restartAttempts, onResultCallback, onErrorCallback, engine,
                         cbCur, finals, fatalLatch, staleSession>>
     ELSE /\ outcome \in StartOutcomes
          /\ outcome = "ok" => CanSchedule(timers)
          /\ transcript' = <<>>
          /\ interimTranscript' = <<>>
          /\ isAborting' = FALSE
          /\ onResultCallback' = TRUE
          /\ onErrorCallback' = hasErr
          /\ restartAttempts' = 0
          /\ callStart' = TRUE
          /\ engine' = IF outcome = "ok" THEN "starting" ELSE engine
          /\ shouldBeListening' = (outcome # "other")
          /\ errCalls' = IF outcome = "other" /\ hasErr THEN 1 ELSE 0
          /\ cbCur' = <<>>
          /\ finals' = <<>>
          /\ fatalLatch' = FALSE
          /\ staleSession' = (engine # "idle")
          /\ lastOutcome' = "none"
  /\ stopResult' = <<>>
  /\ resCalls' = 0
  /\ haltLatch' = FALSE
  /\ justPaused' = FALSE
  /\ roundTrip' = FALSE
  /\ UNCHANGED <<supported, isListening, isPausedState, restartTimer, timers>>

\* mutant of StopValue: the pending fragment is returned too
StopValueWithInterim(t, i) == t \o i

\* the value stop() returns, given this.transcript and this.interimTranscript
StopValue(t, i) == t

\* stop(): string
Stop ==
  /\ shouldBeListening' = FALSE
  /\ timers' = ClearRestartTimer(timers, restartTimer)
  /\ restartTimer' = "null"
  /\ engine' = IF supported /\ isListening THEN EngineStop(engine) ELSE engine
  /\ onResultCallback' = FALSE
  /\ onErrorCallback' = FALSE
  /\ stopResult' = StopValue(transcript, interimTranscript)
  /\ resCalls' = 0
  /\ lastOutcome' = "returned"
  /\ callStart' = FALSE
  /\ errCalls' = 0
  /\ haltLatch' = TRUE
  /\ UNCHANGED staleSession
  /\ justPaused' = FALSE
  /\ roundTrip' = FALSE
  /\ UNCHANGED <<supported, isListening, isAborting, isPausedState, transcript,
                 interimTranscript, restartAttempts, cbCur, finals,
                 fatalLatch>>

\* abort(): isAborting is raised around recognition.abort() and lowered in
\* the finally clause, before any event is delivered
Abort ==
  /\ shouldBeListening' = FALSE
  /\ timers' = ClearRestartTimer(timers, restartTimer)
  /\ restartTimer' = "null"
  /\ IF supported /\ (isListening \/ isAborting)
     THEN /\ engine' = EngineAbort(engine)
          /\ isListening' = FALSE
          /\ isAborting' = FALSE
     ELSE UNCHANGED <<engine, isListening, isAborting>>
  /\ onResultCallback' = FALSE
  /\ onErrorCallback' = FALSE
  /\ stopResult' = <<>>
  /\ resCalls' = 0
  /\ lastOutcome' = "none"
  /\ callStart' = FALSE
  /\ errCalls' = 0
  /\ haltLatch' = TRUE
  /\ UNCHANGED staleSession
  /\ justPaused' = FALSE
  /\ roundTrip' = FALSE
  /\ UNCHANGED <<supported, isPausedState, transcript, interimTranscript,
                 restartAttempts, cbCur, finals, fatalLatch>>

\* pause()
Pause ==
  /\ isPausedState' = TRUE
  /\ engine' = IF supported /\ isListening THEN EngineStop(engine) ELSE engine
  /\ stopResult' = <<>>
  /\ resCalls' = 0
  /\ lastOutcome' = "none"
  /\ callStart' = FALSE
  /\ errCalls' = 0
  /\ haltLatch' = TRUE
  /\ UNCHANGED staleSession
  /\ justPaused' = (supported /\ isListening)
  /\ roundTrip' = FALSE
  /\ UNCHANGED <<supported, isListening, isAborting, shouldBeListening, transcript,
                 interimTranscript, restartTimer, restartAttempts, onResultCallback,
                 onErrorCallback, timers, cbCur, finals,
                 fatalLatch>>

\* resume(): outcome is what recognition.start() does if it is reached
Resume(outcome) ==
  /\ isPausedState' = FALSE
  /\ IF shouldBeListening /\ ~isListening /\ supported
     THEN /\ outcome \in StartOutcomes
          /\ outcome = "ok" => CanSchedule(timers)
          /\ callStart' = TRUE
          /\ engine' = IF outcome = "ok" THEN "starting" ELSE engine
     ELSE /\ callStart' = FALSE
          /\ UNCHANGED engine
  /\ stopResult' = <<>>
  /\ resCalls' = 0
  /\ lastOutcome' = "none"
  /\ errCalls' = 0
  /\ haltLatch' = FALSE
  /\ UNCHANGED staleSession
  /\ justPaused' = FALSE
  /\ roundTrip' = (justPaused /\ shouldBeListening)
  /\ UNCHANGED <<supported, isListening, isAborting, shouldBeListening, transcript,
                 interimTranscript, restartTimer, restartAttempts, onResultCallback,
                 onErrorCallback, timers, cbCur, finals,
                 fatalLatch>>

Outcomes == {"ok", "already", "other"}
Errors == FatalErrors \cup TransientErrors \cup {"aborted"}

\* the service driven by its caller directly
Next ==
  \/ \E hasErr \in BOOLEAN, o \in Outcomes : Start(hasErr, o) /\ UNCHANGED <<compVars, recVars, libVars>>
  \/ Stop /\ UNCHANGED <<compVars, recVars, libVars>>
  \/ Abort /\ UNCHANGED <<compVars, recVars, libVars>>
  \/ Pause /\ UNCHANGED <<compVars, recVars, libVars>>
  \/ \E o \in Outcomes : Resume(o) /\ UNCHANGED <<compVars, recVars, libVars>>
  \/ OnStart /\ UNCHANGED <<compVars, recVars, libVars>>
  \/ OnEnd /\ UNCHANGED <<compVars, recVars, libVars>>
  \/ \E e \in Errors : OnError(e) /\ UNCHANGED <<compVars, recVars, libVars>>
  \/ \E u \in Updates : OnResult(u) /\ UNCHANGED <<compVars, recVars, libVars>>
  \/ \E k \in TimerKinds, held \in BOOLEAN, o \in Outcomes :
        TimerFire(k, held, o) /\ UNCHANGED <<compVars, recVars, libVars>>

Spec == Init /\ [][Next]_vars

\* the steps of the handlers, whatever their inputs
StartStep == \E hasErr \in BOOLEAN, o \in Outcomes : Start(hasErr, o)
ResumeStep == \E o \in Outcomes : Resume(o)
TimerStep == \E k \in TimerKinds, held \in BOOLEAN, o \in Outcomes : TimerFire(k, held, o)
FatalErrorStep == \E e \in FatalErrors : OnError(e)

\* ===================================================================== C1
\* C1: within a session (since the last start()), every final text passed to
\* the result callback has the one passed before it as a prefix: restarts,
\* engine-ended events, pause() and resume() never remove, reorder or reset
\* finalized text.
C1_FinalTextOnlyGrows ==
  [][StartStep \/ IsPrefix(cbCur, cbCur')]_vars

\* C1 witness: two finalized fragments have reached the callback and the
\* engine is in a later engine session of the same transcription session
\* (a restart attempt was counted since it last reported started)
C1_Witness ==
  /\ onResultCallback
  /\ Len(finals) >= 2
  /\ cbCur = transcript
  /\ Len(cbCur) > 0
  /\ shouldBeListening
  /\ restartAttempts > 0

\* ===================================================================== C2
\* C2: while the session is paused (isPausedState stays true over the step) no
\* handler other than an explicit start() calls the engine's start, in
\* particular no restart timer scheduled before the pause; and an engine-ended
\* event received while paused schedules no restart.
C2_NoEngineStartWhilePaused ==
  [][(isPausedState /\ isPausedState' /\ ~StartStep)
       => (~callStart' /\ (OnEnd => timers' = timers))]_vars

\* ===================================================================== C3
\* C3: at most one restart timer is pending at any time.
C3_AtMostOneRestartPending == Pending(timers) <= 1

\* ===================================================================== C4
\* C4: a fatal engine error ('audio-capture', 'not-allowed') invokes the
\* registered error callback exactly once and clears shouldBeListening, and
\* from then until the next start() no step calls the engine's start: not
\* the engine-ended handler, not a pending restart timer, not resume().
C4_FatalErrorEndsSession ==
  [][/\ FatalErrorStep =>
          /\ errCalls' = (IF onErrorCallback THEN 1 ELSE 0)
          /\ ~shouldBeListening'
     /\ (fatalLatch' /\ ~StartStep) => (~shouldBeListening' /\ ~callStart')]_vars

\* C4 witness: the error callback has just fired for a fatal error while a
\* restart timer scheduled earlier is still pending
C4_Witness ==
  /\ fatalLatch
  /\ errCalls = 1
  /\ ~shouldBeListening
  /\ Pending(timers) >= 1
  /\ onErrorCallback

\* ===================================================================== C5
\* C5: no reachable state has the intent active, the session not paused, the
\* engine stopped and no restart pending, so recovery never gives up.
C5_NeverStuck ==
  ~(shouldBeListening /\ ~isPausedState /\ engine = "idle" /\ Pending(timers) = 0)

\* ===================================================================== C6
\* C6: restartAttempts stays within 0..3 and is 0 after the engine's started
\* event; a restart timer firing at the ceiling (restartAttempts = 3) does not
\* call the engine's start, and while the 2000 ms cooldown is pending no
\* restart timer calls the engine's start.
C6_CeilingThenCooldown ==
  [][/\ restartAttempts' \in 0..maxRestartAttempts
     /\ OnStart => restartAttempts' = 0
     /\ (TimerStep /\ restartAttempts = maxRestartAttempts) => ~callStart'
     /\ (TimerStep /\ timers["cooldown"] > 0
           /\ timers'["cooldown"] >= timers["cooldown"]) => ~callStart']_vars

\* ---------------------------------------------------------------- fairness
\* the engine delivers the events it owes: started or an error after an
\* accepted start(), ended after stop(), abort() or an error
EngineDelivers ==
  \/ OnStart
  \/ \E e \in Errors : engine \in {"starting", "aborting"} /\ OnError(e)
  \/ engine # "running" /\ OnEnd

\* a restart timer fires and the engine accepts the start() it calls
RestartAccepted ==
  \E k \in TimerKinds, held \in BOOLEAN : TimerFire(k, held, "ok") /\ callStart'

\* timers fire and the engine delivers what it owes (the event loop runs);
\* an engine asked to start again and again eventually accepts and reports
\* started (a working engine)
SpecLive ==
  /\ Init /\ [][Next]_vars
  /\ WF_vars(TimerStep /\ UNCHANGED <<compVars, recVars, libVars>>)
  /\ WF_vars(EngineDelivers /\ UNCHANGED <<compVars, recVars, libVars>>)
  /\ SF_vars(RestartAccepted /\ UNCHANGED <<compVars, recVars, libVars>>)
  /\ SF_vars(OnStart /\ UNCHANGED <<compVars, recVars, libVars>>)

\* ===================================================================== C7
\* C7: pause() and resume() leave shouldBeListening and the transcript as
\* they were, and after a pause() that stopped the engine, immediately
\* followed by resume() (before the ended event), the engine is eventually
\* listening again, unless the caller pauses or ends the session or a fatal
\* error ends it first.
C7_PauseResumeRoundTrip ==
  /\ [][(Pause \/ ResumeStep) =>
          (shouldBeListening' = shouldBeListening /\ transcript' = transcript)]_vars
  /\ (roundTrip /\ shouldBeListening)
       ~> ((isListening /\ engine = "running") \/ ~shouldBeListening \/ isPausedState)

\* C7 witness: resume() has just followed a pause() that stopped the engine,
\* whose ended event is still to come, with finalized text in the transcript
C7_Witness ==
  /\ roundTrip
  /\ shouldBeListening
  /\ ~isPausedState
  /\ engine = "stopping"
  /\ Len(transcript) > 0

\* ===================================================================== C8
\* C8: after pause(), stop() or abort(), whatever the state it is called in
\* (also between an accepted engine start and the started event), the engine
\* eventually is neither running nor about to run, and once it is not, it
\* remains so until the next resume() or start().
C8_HaltStopsEngine ==
  /\ haltLatch ~> (~haltLatch \/ engine \notin {"starting", "running"})
  /\ [][(haltLatch /\ haltLatch' /\ engine \notin {"starting", "running"})
          => engine' \notin {"starting", "running"}]_vars

\* ===================================================================== C9
\* C9: when pause(), stop() or abort() returns, no restart timer is pending.
C9_HaltCancelsTimers ==
  [][(Pause \/ Stop \/ Abort) => Pending(timers') = 0]_vars

C11_StopWithoutSessionFails ==
  [][(Stop /\ ~shouldBeListening) => lastOutcome' # "returned"]_vars

\* ===================================================================== C12
\* C12: start() called while a session is active (shouldBeListening true)
\* changes neither the transcript, the pending text, the registered
\* callbacks, restartAttempts nor the pause flag, does not call the engine's
\* start and reports no error.
C12_StartWhileActiveIsNoOp ==
  [][(StartStep /\ shouldBeListening) =>
       /\ UNCHANGED <<transcript, interimTranscript, onResultCallback,
                      onErrorCallback, restartAttempts, isPausedState,
                      shouldBeListening, cbCur>>
       /\ ~callStart'
       /\ errCalls' = 0]_vars

\* C12 witness: start() has just been ignored in a session that holds
\* finalized and pending text, counted restart attempts and is paused
C12_Witness ==
  /\ lastOutcome = "ignored"
  /\ Len(transcript) > 0
  /\ Len(interimTranscript) > 0
  /\ restartAttempts > 0
  /\ isPausedState

\* ===================================================================== C13
\* C13: stop() and abort() unregister both callbacks, and from then until the
\* next start() no step (engine event or timer) invokes a result or error
\* callback.
C13_NoCallbackAfterStop ==
  [][/\ (Stop \/ Abort) => (~onResultCallback' /\ ~onErrorCallback')
     /\ (~onResultCallback /\ ~onErrorCallback /\ ~StartStep) =>
          /\ resCalls' = 0
          /\ errCalls' = 0
          /\ ~onResultCallback' /\ ~onErrorCallback']_vars

\* C13 witness: after stop() the engine, still stopping, has delivered a
\* result that reached the transcript but no callback
C13_Witness ==
  /\ ~onResultCallback
  /\ ~shouldBeListening
  /\ engine = "stopping"
  /\ resCalls = 0
  /\ cbCur # transcript

\* ===================================================================== C14
\* C14: whenever isListening is true, shouldBeListening is true and the
\* pause flag is false.
C14_ListeningImpliesIntent ==
  isListening => (shouldBeListening /\ ~isPausedState)

\* ===================================================================== C15
\* the not-yet-final fragments of an update, in order
NonFinalFrags(u) ==
  LET nf == SelectSeq(u, LAMBDA r : ~r.isFinal)
  IN  [i \in 1..Len(nf) |-> nf[i].transcript]

C16_TransientErrorsAreSilent ==
  [][\A e \in TransientErrors \cup {"aborted"} :
       OnError(e) => (errCalls' = 0 /\ shouldBeListening' = shouldBeListening)]_vars

\* C16 witness: the engine has reported an error in a session with an error
\* callback registered, and the session is still intended to listen
C16_Witness ==
  /\ engine = "ending"
  /\ shouldBeListening
  /\ onErrorCallback
  /\ errCalls = 0

\* ======================================================== LiveTranscription
\* the timer the auto start/stop effect sets for the given props and state
AutoTimerFor(active, transcribing, button) ==
  IF active /\ ~transcribing /\ ~button THEN "start"
  ELSE IF ~active /\ transcribing /\ ~button THEN "stop"
  ELSE "none"

\* the auto start/stop effect after a step: when isActive, isTranscribing or
\* stopTranscription (which depends on finalTranscript) changed, its cleanup
\* clears the timer and it sets the one for the new values; otherwise the
\* timer is rest
AutoEffect(rest) ==
  autoTimer' =
    IF <<isActive', isTranscribing', finalTranscript'>>
         # <<isActive, isTranscribing, finalTranscript>>
    THEN AutoTimerFor(isActive', isTranscribing', showStartButton)
    ELSE rest

\* the pause/resume effect is scheduled when isPaused or isTranscribing changed
PauseEffectScheduled ==
  pauseEffectDue' = (pauseEffectDue \/ isPaused' # isPaused
                       \/ isTranscribing' # isTranscribing)

\* a step of the component that calls no method of the service
ServiceUntouched ==
  /\ UNCHANGED <<svcVars, envVars, cbCur, finals, fatalLatch, haltLatch, staleSession>>
  /\ callStart' = FALSE
  /\ errCalls' = 0
  /\ resCalls' = 0
  /\ stopResult' = <<>>
  /\ lastOutcome' = "none"
  /\ justPaused' = FALSE
  /\ roundTrip' = FALSE

\* the component after its first render and effects: the service is created,
\* nothing is transcribing, the auto effect has set its timer
Mount ==
  /\ mounted = TRUE
  /\ isActive \in BOOLEAN
  /\ isPaused \in BOOLEAN
  /\ showStartButton \in BOOLEAN
  /\ isTranscribing = FALSE
  /\ finalTranscript = <<>>
  /\ autoTimer = AutoTimerFor(isActive, FALSE, showStartButton)
  /\ pauseEffectDue = FALSE
  /\ fatalReported = FALSE

InitComp == ServiceInit /\ Mount /\ RecorderInit /\ LibraryIdle

\* startTranscription(): setIsTranscribing(true), then service.start() with
\* an error callback that sets it back to false (outcome o of the engine)
StartTranscription(o) ==
  /\ Start(TRUE, o)
  /\ isTranscribing' = (errCalls' = 0)

\* stopTranscription()
StopTranscription ==
  /\ Stop
  /\ isTranscribing' = FALSE

\* the 100 ms timer of the auto effect fires: startTranscription()
AutoStart(o) ==
  /\ mounted
  /\ autoTimer = "start"
  /\ StartTranscription(o)
  /\ UNCHANGED <<mounted, isActive, isPaused, showStartButton, finalTranscript,
                 fatalReported>>
  /\ AutoEffect("none")
  /\ PauseEffectScheduled

\* the 100 ms timer of the auto effect fires: stopTranscription()
AutoStop ==
  /\ mounted
  /\ autoTimer = "stop"
  /\ StopTranscription
  /\ UNCHANGED <<mounted, isActive, isPaused, showStartButton, finalTranscript,
                 fatalReported>>
  /\ AutoEffect("none")
  /\ PauseEffectScheduled

\* the user clicks "Start Transcription"
ClickStart(o) ==
  /\ mounted
  /\ showStartButton
  /\ ~isTranscribing
  /\ StartTranscription(o)
  /\ fatalReported' = FALSE
  /\ UNCHANGED <<mounted, isActive, isPaused, showStartButton, finalTranscript>>
  /\ AutoEffect(autoTimer)
  /\ PauseEffectScheduled

\* the user clicks "Stop Transcription"
ClickStop ==
  /\ mounted
  /\ showStartButton
  /\ isTranscribing
  /\ StopTranscription
  /\ fatalReported' = FALSE
  /\ UNCHANGED <<mounted, isActive, isPaused, showStartButton, finalTranscript>>
  /\ AutoEffect(autoTimer)
  /\ PauseEffectScheduled

\* the parent changes the isActive prop
SetActive ==
  /\ mounted
  /\ isActive' = ~isActive
  /\ ServiceUntouched
  /\ fatalReported' = FALSE
  /\ UNCHANGED <<mounted, isPaused, showStartButton, isTranscribing, finalTranscript>>
  /\ AutoEffect(autoTimer)
  /\ PauseEffectScheduled

\* the parent changes the isPaused prop
SetPaused ==
  /\ mounted
  /\ isPaused' = ~isPaused
  /\ ServiceUntouched
  /\ fatalReported' = FALSE
  /\ UNCHANGED <<mounted, isActive, showStartButton, isTranscribing, finalTranscript>>
  /\ AutoEffect(autoTimer)
  /\ PauseEffectScheduled

\* the pause/resume effect runs
PauseEffect(o) ==
  /\ mounted
  /\ pauseEffectDue
  /\ pauseEffectDue' = FALSE
  /\ IF ~isTranscribing THEN ServiceUntouched
     ELSE IF isPaused THEN Pause
     ELSE Resume(o)
  /\ UNCHANGED <<mounted, isActive, isPaused, showStartButton, isTranscribing,
                 finalTranscript, autoTimer, fatalReported>>

\* recognition.onerror with the component's error callback registered by
\* startTranscription: setError, setIsTranscribing(false)
CompOnError(e) ==
  /\ OnError(e)
  /\ IF errCalls' = 1
     THEN isTranscribing' = FALSE /\ fatalReported' = TRUE
     ELSE UNCHANGED <<isTranscribing, fatalReported>>
  /\ UNCHANGED <<mounted, isActive, isPaused, showStartButton, finalTranscript>>
  /\ AutoEffect(autoTimer)
  /\ PauseEffectScheduled

\* recognition.onresult with the component's result callback:
\* setFinalTranscript(final)
CompOnResult(u) ==
  /\ OnResult(u)
  /\ finalTranscript' = IF resCalls' = 1 THEN transcript' ELSE finalTranscript
  /\ UNCHANGED <<mounted, isActive, isPaused, showStartButton, isTranscribing,
                 pauseEffectDue, fatalReported>>
  /\ AutoEffect(autoTimer)

\* the component unmounts: the effects' cleanups run, service.abort()
Unmount ==
  /\ mounted
  /\ mounted' = FALSE
  /\ Abort
  /\ autoTimer' = "none"
  /\ pauseEffectDue' = FALSE
  /\ fatalReported' = FALSE
  /\ UNCHANGED <<isActive, isPaused, showStartButton, isTranscribing, finalTranscript>>

\* the service driven by the component
NextComp ==
  \/ \E o \in Outcomes : AutoStart(o) /\ UNCHANGED <<recVars, libVars>>
  \/ AutoStop /\ UNCHANGED <<recVars, libVars>>
  \/ \E o \in Outcomes : ClickStart(o) /\ UNCHANGED <<recVars, libVars>>
  \/ ClickStop /\ UNCHANGED <<recVars, libVars>>
  \/ SetActive /\ UNCHANGED <<recVars, libVars>>
  \/ SetPaused /\ UNCHANGED <<recVars, libVars>>
  \/ \E o \in Outcomes : PauseEffect(o) /\ UNCHANGED <<recVars, libVars>>
  \/ Unmount /\ UNCHANGED <<recVars, libVars>>
  \/ OnStart /\ UNCHANGED <<compVars, recVars, libVars>>
  \/ OnEnd /\ UNCHANGED <<compVars, recVars, libVars>>
  \/ \E e \in Errors : CompOnError(e) /\ UNCHANGED <<recVars, libVars>>
  \/ \E u \in Updates : CompOnResult(u) /\ UNCHANGED <<recVars, libVars>>
  \/ \E k \in TimerKinds, held \in BOOLEAN, o \in Outcomes :
        TimerFire(k, held, o) /\ UNCHANGED <<compVars, recVars, libVars>>

SpecComp == InitComp /\ [][NextComp]_vars

AutoStartStep == \E o \in Outcomes : AutoStart(o)

\* ===================================================================== C17
\* C17: once the error callback has fired for a fatal engine error, the
\* component in automatic mode does not call the service's start() by itself
\* (from the timer of its auto start effect) before the caller has changed a
\* prop or clicked a button.
C17_NoAutoStartAfterFatal ==
  [][AutoStartStep => ~fatalReported]_vars

\* ========================================================= useMediaRecorder
outsideRecorder == <<svcVars, envVars, obsVars, compVars, libVars>>

Calls == 1..MaxStarts

\* event.data.size of a chunk: empty or not
Sizes == {0, 1}

\* the chunks with size > 0, in order
NonEmpty(cs) == SelectSeq(cs, LAMBDA c : c.size > 0)

\* what the last step showed its caller
RecObs(err, threw, promise, cleanup) ==
  /\ recErrCalls' = err
  /\ recThrew' = threw
  /\ stopPromise' = promise
  /\ cleanupRan' = cleanup
  /\ resolved' = FALSE
  /\ resolvedBlob' = <<>>

\* clearInterval(timerRef.current), clearInterval(levelMonitorRef.current)
ClearIntervals ==
  /\ durationTimers' = durationTimers - (IF timerHeld THEN 1 ELSE 0)
  /\ levelTimers' = levelTimers - (IF levelHeld THEN 1 ELSE 0)
  /\ timerHeld' = FALSE
  /\ levelHeld' = FALSE

\* timerRef.current = setInterval(.., 1000),
\* levelMonitorRef.current = setInterval(.., 100): the intervals the refs
\* held before stay armed
ArmIntervals ==
  /\ durationTimers < MaxIntervals
  /\ levelTimers < MaxIntervals
  /\ durationTimers' = durationTimers + 1
  /\ levelTimers' = levelTimers + 1
  /\ timerHeld' = TRUE
  /\ levelHeld' = TRUE

\* startRecording() is called by the component that owns the hook, which
\* calls it only while mounted: its body runs up to await getUserMedia
StartRecordingCall(i) ==
  /\ ~recUnmounted
  /\ startPhase[i] = "notCalled"
  /\ \A j \in 1..(i - 1) : startPhase[j] # "notCalled"
  /\ startPhase' = [startPhase EXCEPT ![i] = "awaitStream"]
  /\ RecObs(0, FALSE, "none", FALSE)
  /\ UNCHANGED <<recIsRecording, recIsPaused, duration, seenRecording, seenPaused,
                 mediaRecorderRef, streamRef, processorRef, recorders, tracksLive,
                 processors, durationTimers, levelTimers, timerHeld, levelHeld,
                 stoppedOnce>>
  /\ UNCHANGED <<recUnmounted, outsideRecorder>>

\* getUserMedia settles for call i; granted, the body goes on to
\* new AudioProcessor() and await processor.initialize(stream)
StreamResolves(i, granted) ==
  /\ startPhase[i] = "awaitStream"
  /\ IF granted
     THEN /\ startPhase' = [startPhase EXCEPT ![i] = "awaitInit"]
          /\ tracksLive' = [tracksLive EXCEPT ![i] = TRUE]
          /\ processors' = [processors EXCEPT ![i] = ProcessorInitialize(processors[i])]
          /\ RecObs(0, FALSE, "none", FALSE)
     ELSE /\ startPhase' = [startPhase EXCEPT ![i] = "failed"]
          /\ UNCHANGED <<tracksLive, processors>>
          /\ RecObs(1, FALSE, "none", FALSE)
  /\ UNCHANGED <<recIsRecording, recIsPaused, duration, seenRecording, seenPaused,
                 mediaRecorderRef, streamRef, processorRef, recorders,
                 durationTimers, levelTimers, timerHeld, levelHeld, stoppedOnce>>
  /\ UNCHANGED <<recUnmounted, outsideRecorder>>

InitOutcomes == {"ok", "initFails", "ctorThrows"}

\* processor.initialize settles for call i and the rest of the body runs:
\* out says whether initialize rejected or new MediaRecorder threw
InitResolves(i, out) ==
  /\ startPhase[i] = "awaitInit"
  /\ CASE out = "ok" ->
            /\ startPhase' = [startPhase EXCEPT ![i] = "done"]
            /\ processorRef' = i
            /\ streamRef' = i
            /\ recorders' = [recorders EXCEPT ![i] = [NoRecorder EXCEPT !.st = "recording"]]
            /\ mediaRecorderRef' = i
            /\ recIsRecording' = TRUE
            /\ duration' = 0
            /\ ArmIntervals
            /\ stoppedOnce' = FALSE
            /\ RecObs(0, FALSE, "none", FALSE)
       [] out = "initFails" ->
            /\ startPhase' = [startPhase EXCEPT ![i] = "failed"]
            /\ RecObs(1, FALSE, "none", FALSE)
            /\ UNCHANGED <<processorRef, streamRef, recorders, mediaRecorderRef,
                           recIsRecording, duration, durationTimers, levelTimers,
                           timerHeld, levelHeld, stoppedOnce>>
       [] out = "ctorThrows" ->
            /\ startPhase' = [startPhase EXCEPT ![i] = "failed"]
            /\ processorRef' = i
            /\ streamRef' = i
            /\ RecObs(1, FALSE, "none", FALSE)
            /\ UNCHANGED <<recorders, mediaRecorderRef, recIsRecording, duration,
                           durationTimers, levelTimers, timerHeld, levelHeld,
                           stoppedOnce>>
  /\ UNCHANGED <<recIsPaused, seenRecording, seenPaused, tracksLive, processors>>
  /\ UNCHANGED <<recUnmounted, outsideRecorder>>

\* pauseRecording(): MediaRecorder.pause() throws on an inactive recorder
PauseRecording ==
  /\ IF mediaRecorderRef # 0 /\ seenRecording
     THEN IF recorders[mediaRecorderRef].st = "inactive"
          THEN /\ RecObs(0, TRUE, "none", FALSE)
               /\ UNCHANGED <<recorders, recIsPaused, durationTimers, levelTimers,
                              timerHeld, levelHeld>>
          ELSE /\ recorders' = [recorders EXCEPT ![mediaRecorderRef].st = "paused"]
               /\ recIsPaused' = TRUE
               /\ ClearIntervals
               /\ RecObs(0, FALSE, "none", FALSE)
     ELSE /\ RecObs(0, FALSE, "none", FALSE)
          /\ UNCHANGED <<recorders, recIsPaused, durationTimers, levelTimers,
                         timerHeld, levelHeld>>
  /\ UNCHANGED <<recIsRecording, duration, seenRecording, seenPaused,
                 mediaRecorderRef, streamRef, processorRef, startPhase, tracksLive,
                 processors, stoppedOnce>>
  /\ UNCHANGED <<recUnmounted, outsideRecorder>>

\* resumeRecording(): MediaRecorder.resume() throws on an inactive recorder
ResumeRecording ==
  /\ IF mediaRecorderRef # 0 /\ seenPaused
     THEN IF recorders[mediaRecorderRef].st = "inactive"
          THEN /\ RecObs(0, TRUE, "none", FALSE)
               /\ UNCHANGED <<recorders, recIsPaused, durationTimers, levelTimers,
                              timerHeld, levelHeld>>
          ELSE /\ recorders' = [recorders EXCEPT ![mediaRecorderRef].st = "recording"]
               /\ recIsPaused' = FALSE
               /\ ArmIntervals
               /\ RecObs(0, FALSE, "none", FALSE)
     ELSE /\ RecObs(0, FALSE, "none", FALSE)
          /\ UNCHANGED <<recorders, recIsPaused, durationTimers, levelTimers,
                         timerHeld, levelHeld>>
  /\ UNCHANGED <<recIsRecording, duration, seenRecording, seenPaused,
                 mediaRecorderRef, streamRef, processorRef, startPhase, tracksLive,
                 processors, stoppedOnce>>
  /\ UNCHANGED <<recUnmounted, outsideRecorder>>

\* what MediaRecorder.stop() does on an inactive recorder: it throws
\* InvalidStateError or returns, depending on the browser
InactiveStop == {"throws", "ignored"}

\* stopRecording(): the promise executor; onInactive is what
\* MediaRecorder.stop() does if the recorder is inactive
StopRecording(onInactive) ==
  /\ IF mediaRecorderRef # 0 /\ seenRecording
     THEN LET r == recorders[mediaRecorderRef]
          IN  IF r.st = "inactive" /\ onInactive = "throws"
              THEN /\ recorders' = [recorders EXCEPT ![mediaRecorderRef] =
                        [r EXCEPT !.collecting = TRUE, !.waiting = FALSE,
                                  !.chunks = <<>>]]
                   /\ RecObs(0, FALSE, "rejected", FALSE)
                   /\ UNCHANGED <<tracksLive, processors, durationTimers,
                                  levelTimers, timerHeld, levelHeld, recIsRecording,
                                  recIsPaused, duration, stoppedOnce>>
              ELSE /\ recorders' = [recorders EXCEPT ![mediaRecorderRef] =
                        [r EXCEPT !.st = "inactive", !.collecting = TRUE,
                                  !.waiting = TRUE, !.chunks = <<>>,
                                  !.queue = IF r.st = "inactive" THEN r.queue ELSE 2]]
                   /\ tracksLive' = IF streamRef = 0 THEN tracksLive
                                    ELSE [tracksLive EXCEPT ![streamRef] = FALSE]
                   /\ processors' = IF processorRef = 0 THEN processors
                                    ELSE [processors EXCEPT ![processorRef] =
                                            ProcessorStop(processors[processorRef])]
                   /\ ClearIntervals
                   /\ recIsRecording' = FALSE
                   /\ recIsPaused' = FALSE
                   /\ duration' = 0
                   /\ stoppedOnce' = TRUE
                   /\ RecObs(0, FALSE, "pending", TRUE)
     ELSE /\ RecObs(0, FALSE, "rejected", FALSE)
          /\ UNCHANGED <<recorders, tracksLive, processors, durationTimers,
                         levelTimers, timerHeld, levelHeld, recIsRecording,
                         recIsPaused, duration, stoppedOnce>>
  /\ UNCHANGED <<seenRecording, seenPaused, mediaRecorderRef, streamRef,
                 processorRef, startPhase>>
  /\ UNCHANGED <<recUnmounted, outsideRecorder>>

\* the chunks array after recorder r has delivered chunk c to its
\* ondataavailable handler: the handler of startRecording forwards it to
\* options.onDataAvailable, the handler of stopRecording pushes it
Collected(r, c) ==
  IF r.collecting /\ c.size > 0 THEN Append(r.chunks, c) ELSE r.chunks

\* recorder i delivers chunk c
Delivered(r, c) ==
  [r EXCEPT !.emitted = Append(r.emitted, c), !.chunks = Collected(r, c)]

\* a timeslice of recorder i elapses: dataavailable
RecorderEmit(i, z) ==
  /\ recorders[i].st = "recording"
  /\ Len(recorders[i].emitted) < MaxChunks
  /\ LET c == [n |-> Len(recorders[i].emitted) + 1, size |-> z]
     IN  recorders' = [recorders EXCEPT ![i] = Delivered(recorders[i], c)]
  /\ RecObs(0, FALSE, "none", FALSE)
  /\ UNCHANGED <<recIsRecording, recIsPaused, duration, seenRecording, seenPaused,
                 mediaRecorderRef, streamRef, processorRef, startPhase, tracksLive,
                 processors, durationTimers, levelTimers, timerHeld, levelHeld,
                 stoppedOnce>>
  /\ UNCHANGED <<recUnmounted, outsideRecorder>>

\* after stop(): recorder i delivers the data gathered since the last chunk
RecorderFinalData(i, z) ==
  /\ recorders[i].queue = 2
  /\ LET c == [n |-> Len(recorders[i].emitted) + 1, size |-> z]
     IN  recorders' = [recorders EXCEPT ![i] =
                         [Delivered(recorders[i], c) EXCEPT !.queue = 1]]
  /\ RecObs(0, FALSE, "none", FALSE)
  /\ UNCHANGED <<recIsRecording, recIsPaused, duration, seenRecording, seenPaused,
                 mediaRecorderRef, streamRef, processorRef, startPhase, tracksLive,
                 processors, durationTimers, levelTimers, timerHeld, levelHeld,
                 stoppedOnce>>
  /\ UNCHANGED <<recUnmounted, outsideRecorder>>

\* after stop(): recorder i fires its stop event; the onstop handler of
\* stopRecording resolves with new Blob(chunks)
RecorderStopEvent(i) ==
  /\ recorders[i].queue = 1
  /\ recorders' = [recorders EXCEPT ![i].queue = 0, ![i].waiting = FALSE]
  /\ resolved' = recorders[i].waiting
  /\ resolvedBlob' = IF recorders[i].waiting THEN recorders[i].chunks ELSE <<>>
  /\ recErrCalls' = 0
  /\ recThrew' = FALSE
  /\ stopPromise' = "none"
  /\ cleanupRan' = FALSE
  /\ UNCHANGED <<recIsRecording, recIsPaused, duration, seenRecording, seenPaused,
                 mediaRecorderRef, streamRef, processorRef, startPhase, tracksLive,
                 processors, durationTimers, levelTimers, timerHeld, levelHeld,
                 stoppedOnce>>
  /\ UNCHANGED <<recUnmounted, outsideRecorder>>

\* the duration interval ticks: setDuration(prev => prev + 1)
DurationTick ==
  /\ durationTimers > 0
  /\ duration < MaxDuration
  /\ duration' = duration + 1
  /\ RecObs(0, FALSE, "none", FALSE)
  /\ UNCHANGED <<recIsRecording, recIsPaused, seenRecording, seenPaused,
                 mediaRecorderRef, streamRef, processorRef, startPhase, recorders,
                 tracksLive, processors, durationTimers, levelTimers, timerHeld,
                 levelHeld, stoppedOnce>>
  /\ UNCHANGED <<recUnmounted, outsideRecorder>>

\* the hook renders again and the caller takes the new callbacks, which
\* close over the current isRecording and isPaused
Rerender ==
  /\ <<seenRecording, seenPaused>> # <<recIsRecording, recIsPaused>>
  /\ seenRecording' = recIsRecording
  /\ seenPaused' = recIsPaused
  /\ RecObs(0, FALSE, "none", FALSE)
  /\ UNCHANGED <<recIsRecording, recIsPaused, duration, mediaRecorderRef, streamRef,
                 processorRef, startPhase, recorders, tracksLive, processors,
                 durationTimers, levelTimers, timerHeld, levelHeld, stoppedOnce>>
  /\ UNCHANGED <<recUnmounted, outsideRecorder>>

\* every track of recorder i's stream has ended: the browser stops the
\* recorder as if stop() had been called
TracksEnded(i) ==
  /\ recorders[i].st \in {"recording", "paused"}
  /\ ~tracksLive[i]
  /\ recorders' = [recorders EXCEPT ![i].st = "inactive", ![i].queue = 2]
  /\ RecObs(0, FALSE, "none", FALSE)
  /\ UNCHANGED <<recIsRecording, recIsPaused, duration, seenRecording, seenPaused,
                 mediaRecorderRef, streamRef, processorRef, startPhase, tracksLive,
                 processors, durationTimers, levelTimers, timerHeld, levelHeld,
                 stoppedOnce>>
  /\ UNCHANGED <<recUnmounted, outsideRecorder>>

\* the cleanup of the hook's mount effect, run once when its component
\* unmounts
RecUnmount ==
  /\ ~recUnmounted
  /\ recUnmounted' = TRUE
  /\ ClearIntervals
  /\ tracksLive' = IF streamRef = 0 THEN tracksLive
                   ELSE [tracksLive EXCEPT ![streamRef] = FALSE]
  /\ processors' = IF processorRef = 0 THEN processors
                   ELSE [processors EXCEPT ![processorRef] =
                           ProcessorStop(processors[processorRef])]
  /\ processorRef' = 0
  /\ RecObs(0, FALSE, "none", FALSE)
  /\ UNCHANGED <<recIsRecording, recIsPaused, duration, seenRecording, seenPaused,
                 mediaRecorderRef, streamRef, startPhase, recorders, stoppedOnce>>
  /\ UNCHANGED outsideRecorder

InitRec == ServiceInit /\ supported /\ ComponentAbsent /\ RecorderInit /\ LibraryIdle

NextRec ==
  \/ \E i \in Calls : StartRecordingCall(i)
  \/ \E i \in Calls, granted \in BOOLEAN : StreamResolves(i, granted)
  \/ \E i \in Calls, out \in InitOutcomes : InitResolves(i, out)
  \/ PauseRecording
  \/ ResumeRecording
  \/ \E onInactive \in InactiveStop : StopRecording(onInactive)
  \/ \E i \in Calls, z \in Sizes : RecorderEmit(i, z)
  \/ \E i \in Calls, z \in Sizes : RecorderFinalData(i, z)
  \/ \E i \in Calls : RecorderStopEvent(i)
  \/ DurationTick
  \/ Rerender
  \/ \E i \in Calls : TracksEnded(i)
  \/ RecUnmount

SpecRec == InitRec /\ [][NextRec]_vars

StopRecordingStep == \E onInactive \in InactiveStop : StopRecording(onInactive)

\* ===================================================================== C18
\* C18: the blob a stopRecording() promise resolves with holds every
\* non-empty chunk its recorder emitted since startRecording, in order.
C18_BlobHoldsAllChunks ==
  [][\A i \in Calls : (RecorderStopEvent(i) /\ resolved') =>
        resolvedBlob' = NonEmpty(recorders[i].emitted)]_vars

\* ===================================================================== C19
\* C19: stopRecording() called again after a stopRecording() that released
\* the recording (and before a new startRecording() completes) returns a
\* rejected promise, does not throw and does not run the release block again.
C19_SecondStopRejects ==
  [][(StopRecordingStep /\ stoppedOnce) =>
       (stopPromise' = "rejected" /\ ~recThrew' /\ ~cleanupRan')]_vars

\* ===================================================================== C20
\* C20: whenever the referenced recorder is paused no duration or level
\* interval is armed, and the two kinds are armed or disarmed together.
C20_PausedMeansTimersOff ==
  /\ (mediaRecorderRef # 0 /\ recorders[mediaRecorderRef].st = "paused")
       => (durationTimers = 0 /\ levelTimers = 0)
  /\ (durationTimers > 0) <=> (levelTimers > 0)

\* ===================================================================== C21
\* the referenced recorder is recording and not paused
ActivelyRecording ==
  mediaRecorderRef # 0 /\ recorders[mediaRecorderRef].st = "recording"

\* C21: the elapsed seconds change only by a duration tick taken while the
\* recorder is recording and not paused, or by the reset to 0 of a completed
\* startRecording or stopRecording; pauseRecording and resumeRecording leave
\* the value as it is.
C21_ElapsedCountsActiveTime ==
  [][/\ (duration' # duration) =>
          \/ DurationTick /\ ActivelyRecording
          \/ duration' = 0 /\ (StopRecordingStep \/ \E i \in Calls : InitResolves(i, "ok"))
     /\ (PauseRecording \/ ResumeRecording) => duration' = duration]_vars

\* ===================================================================== C22
\* C22: teardown is idempotent: however stopRecording and the unmount
\* cleanup interleave, the context of a processor is closed at most once,
\* and neither of the two throws.
C22_TeardownIdempotent ==
  /\ [](\A i \in Calls : processors[i].closes <= 1)
  /\ [][(StopRecordingStep \/ RecUnmount) => ~recThrew']_vars

\* stopRecording released the only recording made and the unmount cleanup
\* ran as well: the processor was torn down by both, its context closed once
C22_Witness ==
  /\ recUnmounted
  /\ stoppedOnce
  /\ startPhase[2] = "notCalled"
  /\ processors[1].closes = 1

\* ===================================================================== C23
\* C23: once the unmount cleanup has run, no track of a stream the hook
\* acquired is live, no duration or level interval is armed and no
\* processor holds an open context.
C23_NothingLeftAfterUnmount ==
  recUnmounted =>
    /\ \A i \in Calls : ~tracksLive[i]
    /\ durationTimers = 0 /\ levelTimers = 0
    /\ \A i \in Calls : processors[i].audioContext = "null"

\* ===================================================================== C24
\* call i of startRecording fails: the microphone is refused, or the
\* processor or the recorder cannot be set up on the stream acquired
StartFails(i) ==
  \/ StreamResolves(i, FALSE)
  \/ InitResolves(i, "initFails")
  \/ InitResolves(i, "ctorThrows")

\* C24: a failing startRecording calls the error callback once, throws
\* nothing, leaves no track of the stream it acquired live and, being the
\* only call made, leaves isRecording false and no interval armed.
C24_FailedStartLeavesNothing ==
  [][\A i \in Calls : StartFails(i) =>
        /\ recErrCalls' = 1
        /\ ~recThrew'
        /\ ~tracksLive'[i]
        /\ (\A j \in Calls \ {i} : startPhase[j] = "notCalled") =>
             (~recIsRecording' /\ durationTimers' = 0 /\ levelTimers' = 0)]_vars

\* ==================================================== AudioProcessor alone
\* the rest of the recorder hook's state, which a call on a processor
\* leaves alone
besideProcessors ==
  <<recIsRecording, recIsPaused, duration, seenRecording, seenPaused,
    mediaRecorderRef, streamRef, processorRef, startPhase, recorders,
    tracksLive, durationTimers, levelTimers, timerHeld, levelHeld,
    recErrCalls, recThrew, stopPromise, cleanupRan, resolved, resolvedBlob,
    stoppedOnce, recUnmounted>>

\* processor i: initialize(stream) on a new instance
InitializeCall(i) ==
  /\ processors[i] = NewAudioProcessor
  /\ processors' = [processors EXCEPT ![i] = ProcessorInitialize(processors[i])]
  /\ UNCHANGED <<besideProcessors, outsideRecorder>>

\* processor i: stop()
StopCall(i) ==
  /\ processors' = [processors EXCEPT ![i] = ProcessorStop(processors[i])]
  /\ UNCHANGED <<besideProcessors, outsideRecorder>>

\* processor i: getAverageFrequency()
AverageCall(i) ==
  /\ processors' = [processors EXCEPT ![i] = GetAverageFrequency(processors[i])]
  /\ UNCHANGED <<besideProcessors, outsideRecorder>>

\* the running context of processor i renders: its analyser has new data
AnalyserRenders(i, b) ==
  /\ processors[i].audioContext = "running"
  /\ processors[i].bins # b
  /\ processors' = [processors EXCEPT ![i].bins = b]
  /\ UNCHANGED <<besideProcessors, outsideRecorder>>

InitProc == ServiceInit /\ ComponentAbsent /\ RecorderInit /\ LibraryIdle

NextProc ==
  \/ \E i \in Calls : InitializeCall(i)
  \/ \E i \in Calls : StopCall(i)
  \/ \E i \in Calls : AverageCall(i)
  \/ \E i \in Calls, b \in BinData : AnalyserRenders(i, b)

SpecProc == InitProc /\ [][NextProc]_vars

\* ===================================================================== C25
\* C25: getAverageFrequency() never throws, and on a processor that holds
\* no context, never initialised or stopped, it returns 0.
C25_LevelIsZeroWithoutContext ==
  [][\A i \in Calls : AverageCall(i) =>
        /\ ~processors'[i].threw
        /\ processors[i].audioContext = "null" => processors'[i].reading = 0]_vars

\* ===================================================================== C26
\* the component and the engine have come to rest in a transcription
\* session: no effect, timer or engine event is due
AtRest ==
  /\ mounted /\ isTranscribing /\ shouldBeListening
  /\ ~pauseEffectDue
  /\ autoTimer = "none"
  /\ timers = NoTimers
  /\ engine \in {"idle", "running"}

\* C26: at rest in a transcription session the engine follows the isPaused
\* prop: it does not run while the recorder is paused, and it runs while the
\* recorder is not.
C26_PauseStatesAgree ==
  AtRest => (isPaused <=> engine # "running")

\* ===================================================================== C27
\* the length a final text must exceed to be saved: final.length > 50,
\* scaled to the fragments of the model (2 or 3 characters each)
MinSavedLength == 2

\* the rawText the result callback POSTs to /api/transcriptions when it is
\* called with the final text final (calls = 1), else nothing
SavedFragment(calls, final) ==
  IF calls = 1 /\ Len(final) > MinSavedLength THEN final ELSE <<>>

\* the text the result callbacks of this session have saved so far
SavedBefore == SavedFragment(1, cbCur)

\* C27: the result callback saves a fragment only when the update added
\* final text and more than the minimum of final text has accumulated since
\* the last save, and what it saves does not repeat text saved before.
C27_SavesOnlyNewText ==
  [][\A u \in Updates :
       (CompOnResult(u) /\ SavedFragment(resCalls', cbCur') # <<>>) =>
          /\ FinalFrags(u) # <<>>
          /\ Len(transcript') - Len(SavedBefore) > MinSavedLength
          /\ SavedBefore = <<>>]_vars

\* ===================================================================== C28
\* C28: a result event of an engine session that was begun before the
\* current start() adds nothing to the transcript of the new session and
\* reaches no result callback.
C28_SessionsIsolated ==
  [][\A u \in Updates : (OnResult(u) /\ staleSession) =>
        (transcript' = transcript /\ resCalls' = 0)]_vars

\* =========================================================== callGeminiAPI
outsideLibrary == <<svcVars, envVars, obsVars, compVars, recVars>>

\* const maxRetries = 2
maxRetries == 2

\* const retryDelay = 2000 * (retries + 1)
retryDelay(retries) == 2000 * (retries + 1)

\* what the fetch of one request comes to: an OK response with text, an OK
\* response with an error body, an OK response without text, a non-OK
\* status, or a rejection (network failure)
FetchResults == {"text", "errorBody", "empty", "429", "400", "404", "500", "rejects"}

\* the error callGeminiAPI throws for a fetch result that is not retried
ErrorFor(r) ==
  CASE r = "429" -> "quota exceeded"
    [] r = "400" -> "invalid request"
    [] r = "404" -> "model not found"
    [] r = "500" -> "status"
    [] r = "errorBody" -> "error body"
    [] r = "empty" -> "empty response"
    [] r = "rejects" -> "fetch failed"

\* mutant of MayRetry: one more retry is allowed
MayRetryOnceMore(retries) == retries <= maxRetries

\* if (retries < maxRetries)
MayRetry(retries) == retries < maxRetries

\* callGeminiAPI(prompt, retries) up to its fetch: throws without API key,
\* else sends one request
Enter(call, retries) ==
  IF ~geminiKey
  THEN [call EXCEPT !.phase = "threw", !.error = "no API key", !.retries = retries]
  ELSE [call EXCEPT !.phase = "fetching", !.retries = retries,
                    !.requests = call.requests + 1]

\* caller c calls callGeminiAPI(prompt)
CallGeminiAPI(c) ==
  /\ geminiCalls[c].phase = "idle"
  /\ geminiCalls' = [geminiCalls EXCEPT ![c] = Enter(geminiCalls[c], 0)]
  /\ UNCHANGED <<geminiKey, response, flashcards, parseThrew>>
  /\ UNCHANGED outsideLibrary

\* the fetch of caller c settles with r and the body goes on: returns the
\* text, throws, or on 429 with retries left starts to wait retryDelay
FetchSettles(c, r) ==
  /\ geminiCalls[c].phase = "fetching"
  /\ LET call == geminiCalls[c]
     IN  geminiCalls' = [geminiCalls EXCEPT ![c] =
           IF r = "text" THEN [call EXCEPT !.phase = "returned"]
           ELSE IF r = "429" /\ MayRetry(call.retries)
           THEN [call EXCEPT !.phase = "waiting",
                             !.waits = Append(call.waits, retryDelay(call.retries))]
           ELSE [call EXCEPT !.phase = "threw", !.error = ErrorFor(r)]]
  /\ UNCHANGED <<geminiKey, response, flashcards, parseThrew>>
  /\ UNCHANGED outsideLibrary

\* the retry delay of caller c is over: callGeminiAPI(prompt, retries + 1)
RetryAfterDelay(c) ==
  /\ geminiCalls[c].phase = "waiting"
  /\ geminiCalls' = [geminiCalls EXCEPT ![c] =
                        Enter(geminiCalls[c], geminiCalls[c].retries + 1)]
  /\ UNCHANGED <<geminiKey, response, flashcards, parseThrew>>
  /\ UNCHANGED outsideLibrary

InitGemini ==
  /\ ServiceInit /\ ComponentAbsent /\ RecorderInit
  /\ geminiKey \in BOOLEAN
  /\ geminiCalls = [c \in Callers |-> NoCall]
  /\ response = <<>>
  /\ flashcards = <<>>
  /\ parseThrew = FALSE

NextGemini ==
  \/ \E c \in Callers : CallGeminiAPI(c)
  \/ \E c \in Callers, r \in FetchResults : FetchSettles(c, r)
  \/ \E c \in Callers : RetryAfterDelay(c)

\* every fetch settles and every delay ends
SpecGemini ==
  /\ InitGemini /\ [][NextGemini]_vars
  /\ \A c \in Callers :
       /\ WF_vars(\E r \in FetchResults : FetchSettles(c, r))
       /\ WF_vars(RetryAfterDelay(c))

\* ===================================================================== C29
\* C29: a callGeminiAPI invocation once made ends by returning or throwing;
\* it sends at most 3 requests; it waits only after a 429, 2000 ms and then
\* 4000 ms; a 429 on the third request throws the quota error; any other
\* failure ends the call at once with the waits it had.
C29_BoundedRetry ==
  /\ \A c \in Callers :
       (geminiCalls[c].phase # "idle") ~> (geminiCalls[c].phase \in {"returned", "threw"})
  /\ [](\A c \in Callers :
          /\ geminiCalls[c].requests <= 3
          /\ geminiCalls[c].waits \in {<<>>, <<2000>>, <<2000, 4000>>}
          /\ geminiCalls[c].requests <= Len(geminiCalls[c].waits) + 1)
  /\ [][\A c \in Callers, r \in FetchResults : FetchSettles(c, r) =>
          /\ (r # "429" /\ r # "text") =>
                /\ geminiCalls'[c].phase = "threw"
                /\ geminiCalls'[c].waits = geminiCalls[c].waits
          /\ (r = "429" /\ geminiCalls[c].requests = 3) =>
                /\ geminiCalls'[c].phase = "threw"
                /\ geminiCalls'[c].error = "quota exceeded"]_vars

\* a call that was refused three times: three requests, both waits made,
\* ended with the quota error
C29_Witness ==
  \E c \in Callers :
     /\ geminiCalls[c].phase = "threw"
     /\ geminiCalls[c].error = "quota exceeded"
     /\ geminiCalls[c].requests = 3
     /\ geminiCalls[c].waits = <<2000, 4000>>

\* ======================================================= generateFlashcards
\* at most this many '---'-separated blocks in a response
MaxBlocks == 2
\* at most this many lines in a block
MaxLines == 3

\* the lines a block is made of: a label with the text after it on its
\* line (possibly none), or a blank line
Lines ==
  [key : {"QUESTION:"}, value : {"", "q"}]
    \cup [key : {"ANSWER:"}, value : {"", "a"}]
    \cup [key : {"DIFFICULTY:"}, value : {"EASY", "Hard", "EXPERT"}]
    \cup [key : {"blank"}, value : {""}]

Blocks == UNION { [1..n -> Lines] : n \in 0..MaxLines }

\* response.split("---")
Responses == UNION { [1..n -> Blocks] : n \in 1..MaxBlocks }

\* the non-whitespace text of a line, as words
Words(l) ==
  IF l.key = "blank" THEN <<>>
  ELSE IF l.value = "" THEN <<l.key>> ELSE <<l.key, l.value>>

\* b.trim() is not empty
NonBlank(b) == \E i \in DOMAIN b : Words(b[i]) # <<>>

\* String.prototype.toLowerCase on the difficulty words
ToLowerCase(w) ==
  CASE w = "EASY" -> "easy"
    [] w = "Hard" -> "hard"
    [] w = "MEDIUM" -> "medium"
    [] w = "EXPERT" -> "expert"
    [] OTHER -> w

\* the first of the line numbers S, the place of the first match; 0 if none
First(S) == IF S = {} THEN 0 ELSE CHOOSE j \in S : \A k \in S : j <= k

RECURSIVE WordsOf(_, _, _)
\* the words of lines from..to of b
WordsOf(b, from, to) ==
  IF from > to THEN <<>> ELSE Words(b[from]) \o WordsOf(b, from + 1, to)

\* block.match(/QUESTION:\s*([^\n]+)/i)?.[1]: the rest of the first
\* QUESTION: line, or when that is blank the whole next line that is not
\* (\s* runs over line ends); empty when there is no match
QuestionMatch(b) ==
  LET i == First({ k \in DOMAIN b : b[k].key = "QUESTION:" })
  IN  IF i = 0 THEN <<>>
      ELSE IF b[i].value # "" THEN <<b[i].value>>
      ELSE LET j == First({ k \in DOMAIN b : k > i /\ Words(b[k]) # <<>> })
           IN  IF j = 0 THEN <<>> ELSE Words(b[j])

\* block.match(/ANSWER:\s*([\s\S]*?)(?=DIFFICULTY:|$)/i)?.[1].trim():
\* everything after the first ANSWER: up to the next DIFFICULTY: or the end
AnswerMatch(b) ==
  LET i == First({ k \in DOMAIN b : b[k].key = "ANSWER:" })
  IN  IF i = 0 THEN <<>>
      ELSE LET d == First({ k \in DOMAIN b : k > i /\ b[k].key = "DIFFICULTY:" })
               last == IF d = 0 THEN Len(b) ELSE d - 1
           IN  (IF b[i].value = "" THEN <<>> ELSE <<b[i].value>>)
                 \o WordsOf(b, i + 1, last)

\* block.match(/DIFFICULTY:\s*(EASY|MEDIUM|HARD)/i)?.[1] || "MEDIUM"
DifficultyMatch(b) ==
  LET i == First({ k \in DOMAIN b : b[k].key = "DIFFICULTY:"
                       /\ ToLowerCase(b[k].value) \in {"easy", "medium", "hard"} })
  IN  IF i = 0 THEN "MEDIUM" ELSE b[i].value

RECURSIVE ParseBlocks(_, _)
\* the loop over blocks: one card for a block whose question and answer
\* matches are not empty; block is the i + 1 the loop logs
ParseBlocks(blocks, i) ==
  IF i > Len(blocks) THEN <<>>
  ELSE (IF QuestionMatch(blocks[i]) # <<>> /\ AnswerMatch(blocks[i]) # <<>>
        THEN << [block |-> i,
                 question |-> QuestionMatch(blocks[i]),
                 answer |-> AnswerMatch(blocks[i]),
                 difficulty_level |-> ToLowerCase(DifficultyMatch(blocks[i]))] >>
        ELSE <<>>)
       \o ParseBlocks(blocks, i + 1)

\* generateFlashcards once callGeminiAPI has returned response
GenerateFlashcards ==
  /\ flashcards = <<>>
  /\ ~parseThrew
  /\ LET blocks == SelectSeq(response, NonBlank)
         cards == ParseBlocks(blocks, 1)
     IN  /\ flashcards' = cards
         /\ parseThrew' = (Len(cards) = 0)
  /\ UNCHANGED <<geminiKey, geminiCalls, response>>
  /\ UNCHANGED outsideLibrary

InitFlash ==
  /\ ServiceInit /\ supported /\ ComponentAbsent /\ RecorderInit
  /\ geminiKey = TRUE
  /\ geminiCalls = [c \in Callers |-> NoCall]
  /\ response \in Responses
  /\ flashcards = <<>>
  /\ parseThrew = FALSE

NextFlash == GenerateFlashcards

SpecFlash == InitFlash /\ [][NextFlash]_vars

\* ===================================================================== C30
\* the text given for a field in block b: what follows the first label
\* key that has text on its line; "" when no such label has any
FieldText(b, key) ==
  LET S == { i \in DOMAIN b : b[i].key = key /\ b[i].value # "" }
  IN  IF S = {} THEN "" ELSE b[CHOOSE i \in S : \A k \in S : i <= k].value

\* the difficulty a block asks for: that of its first DIFFICULTY: label
\* naming easy, medium or hard in any case, else medium
WantedDifficulty(b) ==
  LET S == { i \in DOMAIN b : b[i].key = "DIFFICULTY:"
                /\ ToLowerCase(b[i].value) \in {"easy", "medium", "hard"} }
  IN  IF S = {} THEN "medium"
      ELSE ToLowerCase(b[CHOOSE i \in S : \A k \in S : i <= k].value)

\* the non-blank blocks of the response that give both a question and an
\* answer, by position among the non-blank blocks, in order
WantedBlocks ==
  LET blocks == SelectSeq(response, NonBlank)
      RECURSIVE From(_)
      From(i) == IF i > Len(blocks) THEN <<>>
                 ELSE (IF FieldText(blocks[i], "QUESTION:") # ""
                          /\ FieldText(blocks[i], "ANSWER:") # ""
                       THEN << [block |-> i,
                                difficulty_level |-> WantedDifficulty(blocks[i])] >>
                       ELSE <<>>) \o From(i + 1)
  IN  From(1)

\* C30: generateFlashcards returns one card, in order, for each non-blank
\* block that gives a question and an answer, with the block's difficulty in
\* lower case or medium, and throws when there is no such block.
C30_OneCardPerCompleteBlock ==
  [][GenerateFlashcards =>
       /\ [i \in 1..Len(flashcards') |->
             [block |-> flashcards'[i].block,
              difficulty_level |-> flashcards'[i].difficulty_level]] = WantedBlocks
       /\ parseThrew' = (WantedBlocks = <<>>)]_vars

=============================================================================
